---- MODULE Spec2Model ----
(***************************************************************************)
(* Clock-control unit of ht32f5xxxx-hal: the Configuration builder and     *)
(* Configuration::freeze (src/src/ckcu.rs), as a state machine.            *)
(*                                                                         *)
(* Frequencies are u32 hertz counts.  Every value of the input sets below  *)
(* keeps hso * 64 under 2^31, so no u32 product of freeze wraps and the    *)
(* model's integers hold the code's values exactly.                        *)
(*                                                                         *)
(* Option<T> is a sequence: <<>> is None and <<v>> is Some(v).             *)
(***************************************************************************)
EXTENDS Integers, Sequences, FiniteSets, TLC

----------------------------------------------------------------------------
(* Option<T> *)

None == <<>>

Some(v) == <<v>>

IsSome(o) == o # <<>>

IsNone(o) == o = <<>>

Unwrap(o) == o[1]

UnwrapOr(o, d) == IF o = <<>> THEN d ELSE o[1]

----------------------------------------------------------------------------
(* IEEE-754 binary32 arithmetic, as far as freeze uses it.  A finite       *)
(* non-negative f32 is <<m, e>> standing for m * 2^e, with m = 0 or        *)
(* 2^23 <= m < 2^24 (24 significant bits).  Every operation rounds to      *)
(* nearest, ties to even, as the hardware / soft-float does.               *)

(* the number of significant bits of 0 <= n < 2^31 *)
BitLen(n) == Cardinality({k \in 0..30 : 2^k <= n})

(* m * 2^e for an exactly known 0 <= m < 2^31, rounded to 24 bits *)
F32Round(m, e) ==
    IF m = 0 THEN <<0, 0>>
    ELSE LET len == BitLen(m) IN
         IF len <= 24
         THEN <<m * 2^(24 - len), e - (24 - len)>>
         ELSE LET s    == len - 24
                  q    == m \div 2^s
                  r    == m % 2^s
                  half == 2^(s - 1)
                  up   == r > half \/ (r = half /\ q % 2 = 1)
                  q2   == IF up THEN q + 1 ELSE q
              IN IF q2 = 2^24 THEN <<2^23, e + s + 1>> ELSE <<q2, e + s>>

(* `n as f32` for an unsigned integer n < 2^31 *)
F32FromU32(n) == F32Round(n, 0)

(* f32::MAX = (2^24 - 1) * 2^104 *)
F32Max == <<2^24 - 1, 104>>

(* a < b *)
F32Lt(a, b) ==
    IF b[1] = 0 THEN FALSE
    ELSE IF a[1] = 0 THEN TRUE
    ELSE a[2] < b[2] \/ (a[2] = b[2] /\ a[1] < b[1])

(* the same value with an odd significand *)
StripZeros(a) ==
    IF a[1] = 0 THEN a
    ELSE LET k == CHOOSE j \in 0..23 : a[1] % 2^j = 0 /\ a[1] % 2^(j + 1) # 0
         IN <<a[1] \div 2^k, a[2] + k>>

(* a * b; the odd parts of the two significands multiply to under 2^31   *)
(* for every product freeze forms (one factor is nf2/no2, nf2 <= 16)     *)
F32Mul(a, b) ==
    LET x == StripZeros(a)
        y == StripZeros(b)
    IN F32Round(x[1] * y[1], x[2] + y[2])

(* long division: k <= 7 more quotient bits of qr[1] + qr[2] / d, d < 2^24 *)
DivBits(qr, d, k) == <<qr[1] * 2^k + (qr[2] * 2^k) \div d, (qr[2] * 2^k) % d>>

(* a / b for b > 0: 26 fraction bits of the quotient of the significands  *)
(* and a sticky bit for the remainder, then rounded                       *)
F32Div(a, b) ==
    IF a[1] = 0 THEN <<0, 0>>
    ELSE LET q0     == <<a[1] \div b[1], a[1] % b[1]>>
             q7     == DivBits(q0, b[1], 7)
             q14    == DivBits(q7, b[1], 7)
             q21    == DivBits(q14, b[1], 7)
             q26    == DivBits(q21, b[1], 5)
             sticky == IF q26[2] # 0 THEN 1 ELSE 0
         IN F32Round(2 * q26[1] + sticky, a[2] - b[2] - 27)

(* |a - b|: the larger operand gets 6 extra low bits, the smaller is      *)
(* aligned to it with the bits shifted out kept as a sticky bit           *)
F32AbsDiff(a, b) ==
    LET hi == IF F32Lt(a, b) THEN b ELSE a
        lo == IF F32Lt(a, b) THEN a ELSE b
    IN IF lo[1] = 0 THEN hi
       ELSE LET d == hi[2] - lo[2]
                A == hi[1] * 64
                B == IF d <= 6 THEN lo[1] * 2^(6 - d)
                     ELSE IF d > 30 THEN 1
                     ELSE LET sh == d - 5
                          IN 2 * (lo[1] \div 2^sh) + (IF lo[1] % 2^sh # 0 THEN 1 ELSE 0)
            IN F32Round(A - B, hi[2] - 6)

(* `x as u32` for a non-negative x below 2^31: truncation toward zero *)
F32ToU32(a) ==
    IF a[1] = 0 THEN 0
    ELSE IF a[2] >= 0 THEN a[1] * 2^a[2]
    ELSE IF a[2] < -24 THEN 0
    ELSE a[1] \div 2^(-a[2])

----------------------------------------------------------------------------
(* Constants of ckcu.rs *)

HSI == 8000000

LSI == 32000

(* 48.mhz(), the ceiling of CK_SYS and of CK_USB *)
MHz48 == 48000000

(* 24.mhz(), above which the flash needs wait states *)
MHz24 == 24000000

(* the legal window of the VCO and of the PLL output *)
VcoMin == 48000000

VcoMax == 96000000

PllOutMin == 4000000

PllOutMax == 48000000

----------------------------------------------------------------------------
(* Configuration::freeze, the computation (ckcu.rs 169-326) *)

(* let hso = self.hse.unwrap_or(HSI.hz()) *)
Hso(c) == UnwrapOr(c.hse, HSI)

(* let pllsrc = self.hse.is_some() *)
PllSrc(c) == IsSome(c.hse)

(* mutant: the ceiling itself is refused *)
CkSysCeilingStrict(f) == f < MHz48

(* assert!(ck_sys <= 48.mhz().into()) *)
CkSysCeilingOk(f) == f <= MHz48

(* assert!(ck_usb < 48.mhz().into()) *)
CkUsbCeilingOk(f) == f < MHz48

(* mutant: the internal oscillators are never matched *)
SysFromTargetExternalOnly(c, f) ==
    IF IsSome(c.lse) /\ Unwrap(c.lse) = f THEN <<6, Unwrap(c.lse), None>>
    ELSE IF IsSome(c.hse) /\ Unwrap(c.hse) = f THEN <<2, Unwrap(c.hse), None>>
    ELSE <<0, f, Some(f)>>

(* mutant: the HSI is matched before the HSE *)
SysFromTargetHsiFirst(c, f) ==
    IF IsSome(c.lse) /\ Unwrap(c.lse) = f THEN <<6, Unwrap(c.lse), None>>
    ELSE IF f = HSI THEN <<3, HSI, None>>
    ELSE IF IsSome(c.hse) /\ Unwrap(c.hse) = f THEN <<2, Unwrap(c.hse), None>>
    ELSE IF f = LSI THEN <<7, LSI, None>>
    ELSE <<0, f, Some(f)>>

(* the if/else chain on an explicit CK_SYS target: <<sw, ck_sys, pll target>> *)
SysFromTarget(c, f) ==
    IF IsSome(c.lse) /\ Unwrap(c.lse) = f THEN <<6, Unwrap(c.lse), None>>
    ELSE IF IsSome(c.hse) /\ Unwrap(c.hse) = f THEN <<2, Unwrap(c.hse), None>>
    ELSE IF f = LSI THEN <<7, LSI, None>>
    ELSE IF f = HSI THEN <<3, HSI, None>>
    ELSE <<0, f, Some(f)>>

(* no CK_SYS target: the low speed oscillator, the LSE if it is provided *)
SysDefault(c) ==
    IF IsSome(c.lse) THEN <<6, Unwrap(c.lse), None>> ELSE <<7, LSI, None>>

(* let (sw, mut ck_sys) = match self.ck_sys { ... } *)
SysSource(c) ==
    IF IsSome(c.ck_sys) THEN SysFromTarget(c, Unwrap(c.ck_sys)) ELSE SysDefault(c)

(* mutant: a declared CK_USB target always takes the PLL *)
PllTargetUsbFirst(c, sysTarget) ==
    IF IsSome(c.ck_usb) THEN c.ck_usb ELSE sysTarget

(* the PLL target after the CK_USB match *)
PllTarget(c, sysTarget) ==
    IF IsSome(c.ck_usb) /\ IsNone(sysTarget) THEN c.ck_usb ELSE sysTarget

(* let mut ck_usb = match self.ck_usb { ... } *)
UsbProvisional(c, sysTarget) ==
    IF IsSome(c.ck_usb) THEN Unwrap(c.ck_usb)
    ELSE IF IsSome(sysTarget) THEN Unwrap(sysTarget) ELSE 0

(* mutant: the VCO multiplies by NF2 alone, without the fixed NF1 = 4 *)
VcoOutWithoutNf1(hso, nf2) == (hso * nf2) \div 2

(* let vco_out = hso.0 * (4 * nf2) / 2 *)
VcoOut(hso, nf2) == (hso * (4 * nf2)) \div 2

VcoInRange(vco) == vco >= VcoMin /\ vco <= VcoMax

(* for no2 in &[1, 2, 4, 8] *)
No2Values == <<1, 2, 4, 8>>

(* let current_divider = nf2 as f32 / *no2 as f32 *)
CurrentDivider(nf2, no2) == F32Div(F32FromU32(nf2), F32FromU32(no2))

(* let current_output = current_divider * hso.0 as f32 *)
CurrentOutput(hso, nf2, no2) == F32Mul(CurrentDivider(nf2, no2), F32FromU32(hso))

(* current_output > 4_000_000.0 && current_output < 48_000_000.0 *)
OutputInRange(out) ==
    F32Lt(F32FromU32(PllOutMin), out) /\ F32Lt(out, F32FromU32(PllOutMax))

(* let optimal_divider = pll_target_clock.unwrap().0 as f32 / hso.0 as f32 *)
OptimalDivider(target, hso) == F32Div(F32FromU32(target), F32FromU32(hso))

(* The body of the inner loop (241-259) on the loop state st = [nf2,      *)
(* closest, difference, found]; found is the model's record of whether    *)
(* closest was ever assigned.                                             *)
SearchStep(st, opt, hso, no2) ==
    IF ~OutputInRange(CurrentOutput(hso, st.nf2, no2)) THEN st
    ELSE LET cur == F32AbsDiff(opt, CurrentDivider(st.nf2, no2))
         IN IF F32Lt(cur, st.difference)
            THEN [st EXCEPT !.closest = <<st.nf2, no2>>, !.difference = cur,
                            !.found = TRUE]
            ELSE st

(* for no2 in &[1, 2, 4, 8] { ... } *)
InnerLoop(st, opt, hso) ==
    LET s1 == SearchStep(st, opt, hso, No2Values[1])
        s2 == SearchStep(s1, opt, hso, No2Values[2])
        s3 == SearchStep(s2, opt, hso, No2Values[3])
    IN SearchStep(s3, opt, hso, No2Values[4])

(* the body of the outer loop (238-261) and the step to the next nf2 *)
OuterBody(st, opt, hso) ==
    LET after == IF VcoInRange(VcoOut(hso, st.nf2)) THEN InnerLoop(st, opt, hso) ELSE st
    IN [after EXCEPT !.nf2 = st.nf2 + 1]

(* let mut closest = (1, 1); let mut difference = f32::MAX; nf2 = 1 *)
SearchInit == [nf2 |-> 1, closest |-> <<1, 1>>, difference |-> F32Max, found |-> FALSE]

(* for nf2 in 1..17: the loop is over *)
SearchDone(st) == st.nf2 = 17

(* ((hso.0 as f32 * (closest.0 as f32 / closest.1 as f32)) as u32).hz() *)
PllOutput(hso, closest) ==
    F32ToU32(F32Mul(F32FromU32(hso), CurrentDivider(closest[1], closest[2])))

(* mutant: the feedback divider is written as it is, 16 included *)
Nf2CodeIdentity(nf2) == nf2

(* closest.0 = if closest.0 == 16 { 0 } else { closest.0 } *)
Nf2Code(nf2) == IF nf2 = 16 THEN 0 ELSE nf2

(* closest.1 = match closest.1 { 1 => 0b00, 2 => 0b01, 4 => 0b10, 8 => 0b11 } *)
No2Code(no2) == CASE no2 = 1 -> 0 [] no2 = 2 -> 1 [] no2 = 4 -> 2 [] no2 = 8 -> 3

(* mutant: the brackets of the dividers 2 and 4 are exchanged *)
AhbPrescalerSwapped(ratio) ==
    IF ratio = 0 THEN <<>>
    ELSE IF ratio = 1 THEN <<0, 1>>
    ELSE IF ratio <= 3 THEN <<2, 4>>
    ELSE IF ratio <= 7 THEN <<1, 2>>
    ELSE IF ratio <= 15 THEN <<4, 8>>
    ELSE <<7, 16>>

(* mutant: the bracket of divider 4 reaches up to ratio 8 *)
AhbPrescalerWideFour(ratio) ==
    IF ratio = 0 THEN <<>>
    ELSE IF ratio = 1 THEN <<0, 1>>
    ELSE IF ratio <= 3 THEN <<1, 2>>
    ELSE IF ratio <= 8 THEN <<2, 4>>
    ELSE IF ratio <= 15 THEN <<4, 8>>
    ELSE <<7, 16>>

(* mutant: the divider is the power of two at or above the ratio *)
AhbPrescalerRoundUp(ratio) ==
    IF ratio = 0 THEN <<>>
    ELSE IF ratio = 1 THEN <<0, 1>>
    ELSE IF ratio <= 2 THEN <<1, 2>>
    ELSE IF ratio <= 4 THEN <<2, 4>>
    ELSE IF ratio <= 8 THEN <<4, 8>>
    ELSE <<7, 16>>

(* the AHB prescaler table: <<bits, div>>, <<>> at unreachable!() *)
AhbPrescaler(ratio) ==
    IF ratio = 0 THEN <<>>
    ELSE IF ratio = 1 THEN <<0, 1>>
    ELSE IF ratio <= 3 THEN <<1, 2>>
    ELSE IF ratio <= 7 THEN <<2, 4>>
    ELSE IF ratio <= 15 THEN <<4, 8>>
    ELSE <<7, 16>>

(* mutant: the divider 3 is written with the code of the divider 8 *)
AdcPrescalerSharedCode(ratio) ==
    IF ratio = 0 THEN <<>>
    ELSE IF ratio = 1 THEN <<0, 1>>
    ELSE IF ratio = 2 THEN <<1, 2>>
    ELSE IF ratio = 3 THEN <<3, 3>>
    ELSE IF ratio <= 7 THEN <<2, 4>>
    ELSE IF ratio <= 15 THEN <<3, 8>>
    ELSE IF ratio <= 31 THEN <<4, 16>>
    ELSE IF ratio <= 63 THEN <<5, 32>>
    ELSE <<6, 64>>

(* the ADC prescaler table: <<bits, div>>, <<>> at unreachable!() *)
AdcPrescaler(ratio) ==
    IF ratio = 0 THEN <<>>
    ELSE IF ratio = 1 THEN <<0, 1>>
    ELSE IF ratio = 2 THEN <<1, 2>>
    ELSE IF ratio = 3 THEN <<7, 3>>
    ELSE IF ratio <= 7 THEN <<2, 4>>
    ELSE IF ratio <= 15 THEN <<3, 8>>
    ELSE IF ratio <= 31 THEN <<4, 16>>
    ELSE IF ratio <= 63 THEN <<5, 32>>
    ELSE <<6, 64>>

(* mutant: the tick clock is taken from the bus clock divided by 4 *)
StClkDiv4(hclk) == hclk \div 4

(* let stclk = (hclk.0 / 8).hz() *)
StClk(hclk) == hclk \div 8

(* the CKOUT source codes *)
CkoutCode(src) ==
    CASE src = "CkRef" -> 0 [] src = "Hclk" -> 1 [] src = "CkSys" -> 2
      [] src = "CkHse" -> 3 [] src = "CkHsi" -> 4 [] src = "CkLse" -> 5
      [] src = "CkLsi" -> 6

(* mutant: the wait states are raised only above the CK_SYS ceiling *)
NeedsFlashWaitAbove48(h) == h > MHz48

(* if hclk > 24.mhz().into() *)
NeedsFlashWait(h) == h > MHz24

(* the locals before freeze has run *)
NoLocals ==
    [panic |-> "none", hso |-> 0, pllsrc |-> FALSE, sw |-> 0, pll_target_clock |-> None,
     search |-> SearchInit, nf2 |-> None, no2 |-> None,
     ck_sys |-> 0, ck_usb |-> 0, ahb_div |-> 0, hclk |-> 0, stclk |-> 0,
     adc_div |-> 0, ck_adc_ip |-> 0]

(* 169-222: the sources.  panic names the assert! that failed, if one did *)
Resolve(c) ==
    LET sysOk  == IsNone(c.ck_sys) \/ CkSysCeilingOk(Unwrap(c.ck_sys))
        usbOk  == IsNone(c.ck_usb) \/ CkUsbCeilingOk(Unwrap(c.ck_usb))
        src    == SysSource(c)
    IN IF ~sysOk THEN [NoLocals EXCEPT !.panic = "assert_ck_sys"]
       ELSE IF ~usbOk THEN [NoLocals EXCEPT !.panic = "assert_ck_usb"]
       ELSE [NoLocals EXCEPT !.hso = Hso(c), !.pllsrc = PllSrc(c), !.sw = src[1],
                             !.ck_sys = src[2],
                             !.pll_target_clock = PllTarget(c, src[3]),
                             !.ck_usb = UsbProvisional(c, src[3])]

(* 264-283: the PLL output replaces ck_sys and ck_usb; the register codes *)
PllResult(l) ==
    IF IsNone(l.pll_target_clock) THEN l
    ELSE [l EXCEPT !.ck_sys = PllOutput(l.hso, l.search.closest),
                   !.ck_usb = PllOutput(l.hso, l.search.closest),
                   !.nf2 = Some(Nf2Code(l.search.closest[1])),
                   !.no2 = Some(No2Code(l.search.closest[2]))]

(* 285-326: the prescalers.  panic names the division by zero or the      *)
(* unreachable!() the two matches end in, if they do                      *)
Prescale(c, l) ==
    LET ahbZero == IsSome(c.hclk) /\ Unwrap(c.hclk) = 0
        ahb     == IF IsSome(c.hclk) THEN AhbPrescaler(l.ck_sys \div Unwrap(c.hclk))
                   ELSE <<0, 1>>
        bus     == l.ck_sys \div ahb[2]
        adcZero == IsSome(c.ck_adc_ip) /\ Unwrap(c.ck_adc_ip) = 0
        adc     == IF IsSome(c.ck_adc_ip) THEN AdcPrescaler(bus \div Unwrap(c.ck_adc_ip))
                   ELSE <<0, 1>>
    IN IF ahbZero THEN [l EXCEPT !.panic = "ahb_divide_by_zero"]
       ELSE IF ahb = <<>> THEN [l EXCEPT !.panic = "ahb_unreachable"]
       ELSE IF adcZero THEN [l EXCEPT !.panic = "adc_divide_by_zero"]
       ELSE IF adc = <<>> THEN [l EXCEPT !.panic = "adc_unreachable"]
       ELSE [l EXCEPT !.ahb_div = ahb[1], !.hclk = bus, !.stclk = StClk(bus),
                      !.adc_div = adc[1], !.ck_adc_ip = bus \div adc[2]]

(* Clocks { ckout: self.ckout, ck_usb, ck_adc_ip, ck_sys, stclk, hclk } *)
ClocksOf(c, loc) ==
    [ckout |-> c.ckout, ck_usb |-> loc.ck_usb, ck_adc_ip |-> loc.ck_adc_ip,
     ck_sys |-> loc.ck_sys, stclk |-> loc.stclk, hclk |-> loc.hclk]

----------------------------------------------------------------------------
(* Bits of unsigned register values *)

(* bit i of n *)
Bit(n, i) == (n \div (2 ^ i)) % 2

(* a | b on 8-bit values *)
U8Or(a, b) ==
    LET f[i \in 0..8] ==
            IF i = 8 THEN 0
            ELSE (IF Bit(a, i) = 1 \/ Bit(b, i) = 1 THEN 2 ^ i ELSE 0) + f[i + 1]
    IN f[0]

(* a ^ b on 8-bit values *)
U8Xor(a, b) ==
    LET f[i \in 0..8] ==
            IF i = 8 THEN 0
            ELSE (IF Bit(a, i) # Bit(b, i) THEN 2 ^ i ELSE 0) + f[i + 1]
    IN f[0]

(* !a on a u8: every bit inverted *)
U8Not(a) == 255 - a

(* a << k on a u8: the bits shifted out are lost *)
U8Shl(a, k) == (a * (2 ^ k)) % 256

----------------------------------------------------------------------------
(* GPIO (gpio.rs): the data-out register of one port *)

(* the pins of GPIOD: PD0..PD3 *)
Pins == 0..3

(* doutr.modify(|_, w| w.doutx().set_bit()) *)
SetBit(r, i) == IF Bit(r, i) = 1 THEN r ELSE r + 2 ^ i

(* doutr.modify(|_, w| w.doutx().clear_bit()) *)
ClearBit(r, i) == IF Bit(r, i) = 1 THEN r - 2 ^ i ELSE r

(* doutr.modify(|_, w| w.bits(1 << self.i)): the register becomes 1 << i *)
ErasedHighBits(r, i) == 1 * (2 ^ i)

(* doutr.modify(|_, w| w.bits(0 << self.i)): the register becomes 0 << i *)
ErasedLowBits(r, i) == 0 * (2 ^ i)

(* doutr.read().bits() & (1 << self.i) == 0, doutr.read().doutx().bit_is_clear() *)
IsSetLow(r, i) == Bit(r, i) = 0

(* self.is_set_low().map(|v| !v) *)
IsSetHigh(r, i) == ~IsSetLow(r, i)

----------------------------------------------------------------------------
(* The driver constructors (serial.rs, i2c.rs, spi.rs) *)

Serials == {"UART0", "UART1", "USART0", "USART1"}

I2cs == {"I2C0", "I2C1"}

Spis == {"SPI0", "SPI1"}

Instances == Serials \cup I2cs \cup Spis

(* the $...rst argument of the serial!, i2c! and spi! invocations *)
RstBit(inst) ==
    CASE inst = "UART0" -> "ur0rst" [] inst = "UART1" -> "ur0rst"
      [] inst = "USART0" -> "usr0rst" [] inst = "USART1" -> "usr1rst"
      [] inst = "I2C0" -> "i2c0rst" [] inst = "I2C1" -> "i2c1rst"
      [] inst = "SPI0" -> "spi0rst" [] inst = "SPI1" -> "spi1rst"

(* the $...en argument of the serial!, i2c! and spi! invocations *)
EnBit(inst) ==
    CASE inst = "UART0" -> "ur0en" [] inst = "UART1" -> "ur1en"
      [] inst = "USART0" -> "usr0en" [] inst = "USART1" -> "usr1en"
      [] inst = "I2C0" -> "i2c0en" [] inst = "I2C1" -> "i2c0en"
      [] inst = "SPI0" -> "spi0en" [] inst = "SPI1" -> "spi1en"

(* the SPI modes: MODE_0, MODE_1, MODE_2, MODE_3 *)
Modes ==
    {[polarity |-> pol, phase |-> ph] :
        pol \in {"IdleLow", "IdleHigh"},
        ph \in {"CaptureOnFirstTransition", "CaptureOnSecondTransition"}}

(* (mode.polarity == Polarity::IdleHigh) as u8 *)
Cpol(mode) == IF mode.polarity = "IdleHigh" THEN 1 ELSE 0

(* (mode.phase == Phase::CaptureOnSecondTransition) as u8 *)
Cpha(mode) == IF mode.phase = "CaptureOnSecondTransition" THEN 1 ELSE 0

(* (cpol << 2) | ((cpol ^ cpha) << 1) | (!(cpol ^ cpha)), on u8 *)
SpiMode(mode) ==
    U8Or(U8Or(U8Shl(Cpol(mode), 2), U8Shl(U8Xor(Cpol(mode), Cpha(mode)), 1)),
         U8Not(U8Xor(Cpol(mode), Cpha(mode))))

(* format().bits(mode): the 3-bit FORMAT field of CR1 keeps the low bits *)
FormatField(v) == v % 8

----------------------------------------------------------------------------
(* I2C (i2c.rs): the status flags busy_wait! reads and the errors *)

Flags == {"sta", "adrs", "txde", "arblos", "rxnack", "buserr"}

(* the else-if chain of busy_wait!: the error a status stands for *)
StatusError(status) ==
    IF "arblos" \in status THEN Some("Arbitration")
    ELSE IF "rxnack" \in status THEN Some("NotAcknowledge")
    ELSE IF "buserr" \in status THEN Some("Bus")
    ELSE None

(* status.$field().$variant() at the three busy_wait! of write *)
WaitOver(wait, status) ==
    CASE wait = "sta" -> "sta" \in status
      [] wait = "adrs" -> "adrs" \in status
      [] wait = "txde" -> "txde" \notin status

(* the slave addresses and the byte strings write is called with *)
Addrs == {80, 208}

ByteStrings == {<<>>, <<17>>, <<17, 34>>}

(* no write is running *)
NoCall ==
    [pc |-> "idle", addr |-> 0, bytes |-> <<>>, i |-> 1, wait |-> "none",
     status |-> None, result |-> None]

----------------------------------------------------------------------------
(* Input sets of the model: the arguments the setters are called with *)

CkoutSrcs == {"CkSys", "CkLsi"}

HseFreqs == {1000000, 2000000, 8000000, 12000000, 12000001}

LseFreqs == {32000, 32768}

CkUsbFreqs == {24000000, 48000000}

CkAdcIpFreqs == {500000, 8000000}

CkSysFreqs ==
    {32000, 32768, 8000000, 12000000, 21999999, 32000000, 40000000, 48000000, 50000000}

HclkFreqs == {1600000, 5000000, 8000000, 48000000}

(* how many times the model counts the poll loop finding PLLRDY clear *)
MaxPolls == 2

----------------------------------------------------------------------------
(* State *)

VARIABLES
    cfg,      \* the Configuration being built (ckcu.configuration)
    pc,       \* "build", a step of freeze, "done" or "panicked"
    loc,      \* the locals of freeze
    regs,     \* the CKCU / FMC register fields freeze touches
    writes,   \* the register writes so far, in order: [reg, val]
    polls,    \* polls of PLLRDY that found it clear
    pllrdy_seen, \* the poll loop has read PLLRDY set and left
    clocks,   \* None, or Some(the Clocks freeze returned)
    doutr,    \* GPIOD: the data-out register
    pins,     \* GPIOD: pin -> "PXi" (typed) or "PXx" (downgraded)
    last_call, \* GPIOD: pin -> the last of set_high / set_low called on it
    apbprstr0, \* RSTCU APBPRSTR0: the reset bits set
    apbccr0,  \* CKCU APBCCR0: the clock-enable bits set
    ctor,     \* None, or Some(the driver constructor that is running)
    drivers,  \* instance -> None, or Some(the driver built from it)
    spi_cr1,  \* SPI instance -> the FORMAT field of its CR1
    wr,       \* the call of I2c::write: position, arguments, locals, result
    i2c_sr,   \* I2C: the flags set in the status register
    i2c_writes \* I2C: the register writes of the call, in order

ckcu_vars == <<cfg, pc, loc, regs, writes, polls, pllrdy_seen, clocks>>

gpio_vars == <<doutr, pins, last_call>>

driver_vars == <<apbprstr0, apbccr0, ctor, drivers, spi_cr1>>

i2c_vars == <<wr, i2c_sr, i2c_writes>>

(* what the clock unit never touches *)
periph == <<gpio_vars, driver_vars, i2c_vars>>

vars == <<cfg, pc, loc, regs, writes, polls, pllrdy_seen, clocks,
          doutr, pins, last_call, apbprstr0, apbccr0, ctor, drivers, spi_cr1,
          wr, i2c_sr, i2c_writes>>

(* The register fields freeze touches, at their reset values: CK_SYS on   *)
(* the HSI (SW = 0b011), prescalers /1, PLL off and not ready, flash      *)
(* WAIT = 0b001 (zero wait states).                                       *)
ResetRegs ==
    [pllsrc |-> 0, pfbd |-> 0, potd |-> 0, pllen |-> 0, pllrdy |-> 0,
     wait |-> 1, sw |-> 3, ahbpre |-> 0, adcdiv |-> 0, ckoutsrc |-> 0]

(* CKCU::constrain(): every field of the Configuration is None *)
Init ==
    /\ cfg = [ckout |-> None, hse |-> None, lse |-> None, ck_usb |-> None,
              ck_adc_ip |-> None, hclk |-> None, ck_sys |-> None]
    /\ pc = "build"
    /\ loc = NoLocals
    /\ regs = ResetRegs
    /\ writes = <<>>
    /\ polls = 0
    /\ pllrdy_seen = FALSE
    /\ clocks = None
    /\ doutr = 0
    /\ pins = [i \in Pins |-> "PXi"]
    /\ last_call = [i \in Pins |-> "none"]
    /\ apbprstr0 = {}
    /\ apbccr0 = {}
    /\ ctor = None
    /\ drivers = [inst \in Instances |-> None]
    /\ spi_cr1 = [inst \in Spis |-> 0]
    /\ wr = NoCall
    /\ i2c_sr = {}
    /\ i2c_writes = <<>>

----------------------------------------------------------------------------
(* The builder's setters (101-166): each replaces its own field *)

Building == pc = "build"

frozen == <<pc, loc, regs, writes, polls, pllrdy_seen, clocks, periph>>

(* mutant: a setter starts again from the Configuration of constrain() *)
SetFieldOfFresh(c, field, v) == [[k \in DOMAIN c |-> None] EXCEPT ![field] = Some(v)]

(* self.field = Some(v); self *)
SetField(c, field, v) == [c EXCEPT ![field] = Some(v)]

ckout(v) == Building /\ cfg' = SetField(cfg, "ckout", v) /\ UNCHANGED frozen

use_hse(f) == Building /\ cfg' = SetField(cfg, "hse", f) /\ UNCHANGED frozen

use_lse(f) == Building /\ cfg' = SetField(cfg, "lse", f) /\ UNCHANGED frozen

ck_usb(f) == Building /\ cfg' = SetField(cfg, "ck_usb", f) /\ UNCHANGED frozen

ck_adc_ip(f) == Building /\ cfg' = SetField(cfg, "ck_adc_ip", f) /\ UNCHANGED frozen

ck_sys(f) == Building /\ cfg' = SetField(cfg, "ck_sys", f) /\ UNCHANGED frozen

hclk(f) == Building /\ cfg' = SetField(cfg, "hclk", f) /\ UNCHANGED frozen

----------------------------------------------------------------------------
(* Configuration::freeze (169-393), one action per step *)

(* one register field written through modify() *)
Write(reg, val) == writes' = Append(writes, [reg |-> reg, val |-> val])

(* 169-222: the sources; a failed assert! ends freeze *)
freeze_resolve ==
    /\ pc = "build"
    /\ loc' = Resolve(cfg)
    /\ pc' = IF loc'.panic # "none" THEN "panicked"
             ELSE IF IsSome(loc'.pll_target_clock) THEN "search" ELSE "prescale"
    /\ UNCHANGED <<periph, cfg, regs, writes, polls, pllrdy_seen, clocks>>

(* mutant: the search aims at the bus target when one is declared *)
freeze_search_for_hclk ==
    /\ pc = "search"
    /\ loc' = [loc EXCEPT !.search =
                  OuterBody(loc.search,
                            OptimalDivider(UnwrapOr(cfg.hclk, Unwrap(loc.pll_target_clock)),
                                           loc.hso),
                            loc.hso)]
    /\ pc' = IF SearchDone(loc'.search) THEN "prescale" ELSE "search"
    /\ UNCHANGED <<periph, cfg, regs, writes, polls, pllrdy_seen, clocks>>

(* 234-262: one iteration of for nf2 in 1..17 *)
freeze_search ==
    /\ pc = "search"
    /\ loc' = [loc EXCEPT !.search =
                  OuterBody(loc.search, OptimalDivider(Unwrap(loc.pll_target_clock), loc.hso),
                            loc.hso)]
    /\ pc' = IF SearchDone(loc'.search) THEN "prescale" ELSE "search"
    /\ UNCHANGED <<periph, cfg, regs, writes, polls, pllrdy_seen, clocks>>

(* where freeze goes once the computation is through *)
AfterCompute(l) ==
    IF l.panic # "none" THEN "panicked"
    ELSE IF IsSome(l.pll_target_clock) THEN "pllsrc" ELSE "flash"

(* 264-326: the PLL result and the prescalers; unreachable!() ends freeze *)
freeze_prescale ==
    /\ pc = "prescale"
    /\ loc' = Prescale(cfg, PllResult(loc))
    /\ pc' = AfterCompute(loc')
    /\ UNCHANGED <<periph, cfg, regs, writes, polls, pllrdy_seen, clocks>>

(* 334: ckcu_gcfgr.modify(|_, w| w.pllsrc().bit(pllsrc)) *)
freeze_pllsrc ==
    /\ pc = "pllsrc"
    /\ regs' = [regs EXCEPT !.pllsrc = IF loc.pllsrc THEN 1 ELSE 0]
    /\ Write("pllsrc", IF loc.pllsrc THEN 1 ELSE 0)
    /\ pc' = "pllcfg"
    /\ UNCHANGED <<periph, cfg, loc, polls, pllrdy_seen, clocks>>

(* 337-342: ckcu_pllcfgr.modify: PFBD = nf2, POTD = no2; logged as        *)
(* PFBD * 4 + POTD, the two adjacent fields read as one                   *)
freeze_pllcfg ==
    /\ pc = "pllcfg"
    /\ regs' = [regs EXCEPT !.pfbd = Unwrap(loc.nf2), !.potd = Unwrap(loc.no2)]
    /\ Write("pllcfg", Unwrap(loc.nf2) * 4 + Unwrap(loc.no2))
    /\ pc' = "pllen"
    /\ UNCHANGED <<periph, cfg, loc, polls, pllrdy_seen, clocks>>

(* 345: ckcu_gccr.modify(|_, w| w.pllen().set_bit()) *)
freeze_pllen ==
    /\ pc = "pllen"
    /\ regs' = [regs EXCEPT !.pllen = 1]
    /\ Write("pllen", 1)
    /\ pc' = "pllwait"
    /\ UNCHANGED <<periph, cfg, loc, polls, pllrdy_seen, clocks>>

(* mutant: the loop polls the enable bit instead of the ready bit *)
PllReadyFromEnable(r) == r.pllen = 1

(* what one evaluation of the loop condition (348) finds *)
PllReady(r) == r.pllrdy = 1

(* mutant: the poll loop gives up after MaxPolls polls *)
freeze_pllwait_timeout ==
    /\ pc = "pllwait"
    /\ IF PllReady(regs)
       THEN pc' = "flash" /\ pllrdy_seen' = TRUE /\ UNCHANGED polls
       ELSE IF polls < MaxPolls
            THEN polls' = polls + 1 /\ UNCHANGED <<pc, pllrdy_seen>>
            ELSE pc' = "flash" /\ UNCHANGED <<polls, pllrdy_seen>>
    /\ UNCHANGED <<periph, cfg, loc, regs, writes, clocks>>

(* 348-350: while !pllrdy { nop }: one poll *)
freeze_pllwait ==
    /\ pc = "pllwait"
    /\ IF PllReady(regs)
       THEN pc' = "flash" /\ pllrdy_seen' = TRUE /\ UNCHANGED polls
       ELSE polls < MaxPolls /\ polls' = polls + 1 /\ UNCHANGED <<pc, pllrdy_seen>>
    /\ UNCHANGED <<periph, cfg, loc, regs, writes, clocks>>

(* the hardware: an enabled PLL locks at some time and raises PLLRDY *)
pll_lock ==
    /\ regs.pllen = 1
    /\ regs.pllrdy = 0
    /\ regs' = [regs EXCEPT !.pllrdy = 1]
    /\ UNCHANGED <<periph, cfg, pc, loc, writes, polls, pllrdy_seen, clocks>>

(* 356-358: fmc_cfcr.modify(|_, w| w.wait().bits(0b010)) if hclk > 24 MHz *)
freeze_flash ==
    /\ pc = "flash"
    /\ IF NeedsFlashWait(loc.hclk)
       THEN regs' = [regs EXCEPT !.wait = 2] /\ Write("wait", 2)
       ELSE UNCHANGED <<regs, writes>>
    /\ pc' = "sw"
    /\ UNCHANGED <<periph, cfg, loc, polls, pllrdy_seen, clocks>>

(* 361: ckcu_gccr.modify(|_, w| w.sw().bits(sw)) *)
freeze_sw ==
    /\ pc = "sw"
    /\ regs' = [regs EXCEPT !.sw = loc.sw]
    /\ Write("sw", loc.sw)
    /\ pc' = "ahb"
    /\ UNCHANGED <<periph, cfg, loc, polls, pllrdy_seen, clocks>>

(* 364: ckcu_ahbcfgr.modify(|_, w| w.ahbpre().bits(ahb_div)) *)
freeze_ahb ==
    /\ pc = "ahb"
    /\ regs' = [regs EXCEPT !.ahbpre = loc.ahb_div]
    /\ Write("ahbpre", loc.ahb_div)
    /\ pc' = "adc"
    /\ UNCHANGED <<periph, cfg, loc, polls, pllrdy_seen, clocks>>

(* 367: ckcu_apbcfgr.modify(|_, w| w.adcdiv().bits(adc_div)) *)
freeze_adc ==
    /\ pc = "adc"
    /\ regs' = [regs EXCEPT !.adcdiv = loc.adc_div]
    /\ Write("adcdiv", loc.adc_div)
    /\ pc' = "ckout"
    /\ UNCHANGED <<periph, cfg, loc, polls, pllrdy_seen, clocks>>

(* mutant: CKOUT is programmed whether or not a source was asked for *)
freeze_ckout_always ==
    /\ pc = "ckout"
    /\ regs' = [regs EXCEPT !.ckoutsrc =
                    IF IsSome(cfg.ckout) THEN CkoutCode(Unwrap(cfg.ckout)) ELSE 0]
    /\ Write("ckoutsrc", IF IsSome(cfg.ckout) THEN CkoutCode(Unwrap(cfg.ckout)) ELSE 0)
    /\ pc' = "return"
    /\ UNCHANGED <<periph, cfg, loc, polls, pllrdy_seen, clocks>>

(* 370-383: if let Some(ckout) = self.ckout { gcfgr.ckoutsrc = code } *)
freeze_ckout ==
    /\ pc = "ckout"
    /\ IF IsSome(cfg.ckout)
       THEN /\ regs' = [regs EXCEPT !.ckoutsrc = CkoutCode(Unwrap(cfg.ckout))]
            /\ Write("ckoutsrc", CkoutCode(Unwrap(cfg.ckout)))
       ELSE UNCHANGED <<regs, writes>>
    /\ pc' = "return"
    /\ UNCHANGED <<periph, cfg, loc, polls, pllrdy_seen, clocks>>

(* 385-392: the Clocks value *)
freeze_return ==
    /\ pc = "return"
    /\ clocks' = Some(ClocksOf(cfg, loc))
    /\ pc' = "done"
    /\ UNCHANGED <<periph, cfg, loc, regs, writes, polls, pllrdy_seen>>

Next ==
    \/ \E v \in CkoutSrcs : ckout(v)
    \/ \E f \in HseFreqs : use_hse(f)
    \/ \E f \in LseFreqs : use_lse(f)
    \/ \E f \in CkUsbFreqs : ck_usb(f)
    \/ \E f \in CkAdcIpFreqs : ck_adc_ip(f)
    \/ \E f \in CkSysFreqs : ck_sys(f)
    \/ \E f \in HclkFreqs : hclk(f)
    \/ freeze_resolve
    \/ freeze_search
    \/ freeze_prescale
    \/ freeze_pllsrc
    \/ freeze_pllcfg
    \/ freeze_pllen
    \/ freeze_pllwait
    \/ pll_lock
    \/ freeze_flash
    \/ freeze_sw
    \/ freeze_ahb
    \/ freeze_adc
    \/ freeze_ckout
    \/ freeze_return

Spec == Init /\ [][Next]_vars

(* the steps of freeze: straight-line code of the one thread that called  *)
(* it, so a step that can be taken is taken                               *)
FreezeStep ==
    \/ freeze_resolve
    \/ freeze_search
    \/ freeze_prescale
    \/ freeze_pllsrc
    \/ freeze_pllcfg
    \/ freeze_pllen
    \/ freeze_pllwait
    \/ freeze_flash
    \/ freeze_sw
    \/ freeze_ahb
    \/ freeze_adc
    \/ freeze_ckout
    \/ freeze_return

(* the setters called with one value each, two for the bus and the USB    *)
(* target: the configurations the liveness properties are checked on      *)
LiveSetters ==
    \/ ckout("CkSys")
    \/ use_hse(12000000)
    \/ use_lse(32768)
    \/ \E f \in {24000000, 48000000} : ck_usb(f)
    \/ ck_adc_ip(8000000)
    \/ ck_sys(32000000)
    \/ \E f \in {8000000, 48000000} : hclk(f)

LiveNext == LiveSetters \/ FreezeStep \/ pll_lock

(* The steps of freeze the liveness properties rest on: the prescaler     *)
(* calculation when no PLL was searched for, and the commit sequence.     *)
(* freeze is straight-line code, so each of them is taken once it can be; *)
(* nothing is assumed of when the builder calls freeze or of when, if     *)
(* ever, the PLL locks.                                                   *)
FreezeRuns ==
    \/ (IsNone(loc.pll_target_clock) /\ freeze_prescale)
    \/ freeze_pllsrc
    \/ freeze_pllcfg
    \/ freeze_pllen
    \/ freeze_pllwait
    \/ freeze_flash
    \/ freeze_sw
    \/ freeze_ahb
    \/ freeze_adc
    \/ freeze_ckout
    \/ freeze_return

LiveSpec == Init /\ [][LiveNext]_vars /\ WF_vars(FreezeRuns)

----------------------------------------------------------------------------
(* GPIO (gpio.rs): the output pins of GPIOD *)

(* 455-460: downgrade: the typed pin becomes $PXx { i } *)
downgrade(i) ==
    /\ pins[i] = "PXi"
    /\ pins' = [pins EXCEPT ![i] = "PXx"]
    /\ UNCHANGED <<doutr, last_call, ckcu_vars, driver_vars, i2c_vars>>

(* 466-469: set_high of the typed pin *)
PXi_set_high(i) ==
    /\ pins[i] = "PXi"
    /\ doutr' = SetBit(doutr, i)
    /\ last_call' = [last_call EXCEPT ![i] = "set_high"]
    /\ UNCHANGED <<pins, ckcu_vars, driver_vars, i2c_vars>>

(* 471-474: set_low of the typed pin *)
PXi_set_low(i) ==
    /\ pins[i] = "PXi"
    /\ doutr' = ClearBit(doutr, i)
    /\ last_call' = [last_call EXCEPT ![i] = "set_low"]
    /\ UNCHANGED <<pins, ckcu_vars, driver_vars, i2c_vars>>

(* 166-170: set_high of the type-erased pin *)
PXx_set_high(i) ==
    /\ pins[i] = "PXx"
    /\ doutr' = ErasedHighBits(doutr, i)
    /\ last_call' = [last_call EXCEPT ![i] = "set_high"]
    /\ UNCHANGED <<pins, ckcu_vars, driver_vars, i2c_vars>>

(* 172-176: set_low of the type-erased pin *)
PXx_set_low(i) ==
    /\ pins[i] = "PXx"
    /\ doutr' = ErasedLowBits(doutr, i)
    /\ last_call' = [last_call EXCEPT ![i] = "set_low"]
    /\ UNCHANGED <<pins, ckcu_vars, driver_vars, i2c_vars>>

GpioNext ==
    \/ \E i \in Pins : downgrade(i)
    \/ \E i \in Pins : PXi_set_high(i)
    \/ \E i \in Pins : PXi_set_low(i)
    \/ \E i \in Pins : PXx_set_high(i)
    \/ \E i \in Pins : PXx_set_low(i)

GpioSpec == Init /\ [][GpioNext]_vars

----------------------------------------------------------------------------
(* The driver constructors, one action per register step.  A peripheral   *)
(* instance is a singleton that the constructor takes by value.           *)

(* the instance has not been given to a constructor *)
Available(inst) == ctor = None /\ drivers[inst] = None

(* rstcu_apbprstr0.modify(|_, w| w.$rst().set_bit()) on entry *)
CtorReset(inst, mode) ==
    /\ Available(inst)
    /\ apbprstr0' = apbprstr0 \cup {RstBit(inst)}
    /\ ctor' = Some([inst |-> inst, mode |-> mode, pc |-> "en"])
    /\ UNCHANGED <<apbccr0, drivers, spi_cr1, ckcu_vars, gpio_vars, i2c_vars>>

(* ckcu_apbccr0.modify(|_, w| w.$en().set_bit()) *)
CtorEnable(insts) ==
    /\ ctor # None
    /\ Unwrap(ctor).inst \in insts
    /\ Unwrap(ctor).pc = "en"
    /\ apbccr0' = apbccr0 \cup {EnBit(Unwrap(ctor).inst)}
    /\ ctor' = Some([Unwrap(ctor) EXCEPT !.pc = "configure"])
    /\ UNCHANGED <<apbprstr0, drivers, spi_cr1, ckcu_vars, gpio_vars, i2c_vars>>

(* the constructor is at the configuration of an instance of insts *)
AtConfigure(insts) ==
    /\ ctor # None
    /\ Unwrap(ctor).inst \in insts
    /\ Unwrap(ctor).pc = "configure"

(* serial.rs 185-189 *)
serialX_rst(inst) == inst \in Serials /\ CtorReset(inst, None)

(* serial.rs 191 *)
serialX_en == CtorEnable(Serials)

(* serial.rs 196-262: the configuration; assert!(baud_div >= 16) and the  *)
(* word-length match can refuse the config                                *)
serialX_configure(ok) ==
    /\ AtConfigure(Serials)
    /\ drivers' = [drivers EXCEPT ![Unwrap(ctor).inst] =
                      Some(IF ok THEN "Serial" ELSE "refused")]
    /\ ctor' = None
    /\ UNCHANGED <<apbprstr0, apbccr0, spi_cr1, ckcu_vars, gpio_vars, i2c_vars>>

(* i2c.rs 127-130 *)
i2cX_rst(inst) == inst \in I2cs /\ CtorReset(inst, None)

(* i2c.rs 132 *)
i2cX_en == CtorEnable(I2cs)

(* i2c.rs 135-139: the SCL timing and I2CEN *)
i2cX_configure ==
    /\ AtConfigure(I2cs)
    /\ drivers' = [drivers EXCEPT ![Unwrap(ctor).inst] = Some("I2c")]
    /\ ctor' = None
    /\ UNCHANGED <<apbprstr0, apbccr0, spi_cr1, ckcu_vars, gpio_vars, i2c_vars>>

(* spi.rs 78-81 *)
spiX_rst(inst, mode) == inst \in Spis /\ CtorReset(inst, Some(mode))

(* spi.rs 83 *)
spiX_en == CtorEnable(Spis)

(* spi.rs 91-130: the FORMAT field of CR1 from the mode, then the divider *)
(* and the enable bits                                                    *)
spiX_configure ==
    /\ AtConfigure(Spis)
    /\ spi_cr1' = [spi_cr1 EXCEPT ![Unwrap(ctor).inst] =
                      FormatField(SpiMode(Unwrap(Unwrap(ctor).mode)))]
    /\ drivers' = [drivers EXCEPT ![Unwrap(ctor).inst] = Some(Unwrap(Unwrap(ctor).mode))]
    /\ ctor' = None
    /\ UNCHANGED <<apbprstr0, apbccr0, ckcu_vars, gpio_vars, i2c_vars>>

DriverNext ==
    \/ \E inst \in Serials : serialX_rst(inst)
    \/ serialX_en
    \/ \E ok \in BOOLEAN : serialX_configure(ok)
    \/ \E inst \in I2cs : i2cX_rst(inst)
    \/ i2cX_en
    \/ i2cX_configure
    \/ \E inst \in Spis : \E mode \in Modes : spiX_rst(inst, mode)
    \/ spiX_en
    \/ spiX_configure

DriverSpec == Init /\ [][DriverNext]_vars

----------------------------------------------------------------------------
(* I2c::write (i2c.rs 175-206), one action per register access *)

(* one register write of the call *)
I2cWrite(reg, val) == i2c_writes' = Append(i2c_writes, [reg |-> reg, val |-> val])

(* 180-187: i2c_tar: RWD clear, TAR = (addr << 1) as u16 *)
i2c_write(addr, bytes) ==
    /\ wr.pc \in {"idle", "returned"}
    /\ i2c_writes' = <<[reg |-> "tar", val |-> U8Shl(addr, 1)]>>
    /\ wr' = [NoCall EXCEPT !.pc = "sta", !.addr = addr, !.bytes = bytes]
    /\ UNCHANGED <<i2c_sr, ckcu_vars, gpio_vars, driver_vars>>

(* 58-80: one round of busy_wait!: read the status, leave the loop, return *)
(* an error, or go round again                                            *)
BusyWait(wait, after) ==
    /\ wr.pc = wait
    /\ LET status == i2c_sr
       IN wr' = IF WaitOver(wait, status)
                THEN [wr EXCEPT !.pc = after, !.wait = wait, !.status = Some(status)]
                ELSE IF StatusError(status) # None
                THEN [wr EXCEPT !.pc = "returned", !.wait = wait, !.status = Some(status),
                                !.result = Some([err |-> Unwrap(StatusError(status))])]
                ELSE [wr EXCEPT !.wait = wait, !.status = Some(status)]
    /\ UNCHANGED <<i2c_sr, i2c_writes, ckcu_vars, gpio_vars, driver_vars>>

(* where the loop over bytes stands: the next byte, or the STOP *)
LoopPc(i) == IF i <= Len(wr.bytes) THEN "txde" ELSE "stop"

(* 190: busy_wait!(self.i2c, sta, bit_is_set) *)
i2c_wait_sta == BusyWait("sta", "adrs")

(* 192: busy_wait!(self.i2c, adrs, bit_is_set) *)
i2c_wait_adrs == BusyWait("adrs", LoopPc(1))

(* 196: busy_wait!(self.i2c, txde, bit_is_clear) *)
i2c_wait_txde == BusyWait("txde", "dr")

(* 198: i2c_dr.write(|w| w.data().bits(byte)) for the byte at hand *)
i2c_dr ==
    /\ wr.pc = "dr"
    /\ I2cWrite("dr", wr.bytes[wr.i])
    /\ wr' = [wr EXCEPT !.i = wr.i + 1, !.pc = LoopPc(wr.i + 1)]
    /\ UNCHANGED <<i2c_sr, ckcu_vars, gpio_vars, driver_vars>>

(* 202-204: i2c_cr.modify(|_, w| w.stop().set_bit()); Ok(()) *)
i2c_stop ==
    /\ wr.pc = "stop"
    /\ I2cWrite("stop", 1)
    /\ wr' = [wr EXCEPT !.pc = "returned", !.result = Some([ok |-> TRUE])]
    /\ UNCHANGED <<i2c_sr, ckcu_vars, gpio_vars, driver_vars>>

(* the bus: the hardware raises or clears a status flag *)
i2c_flag(f) ==
    /\ i2c_sr' = IF f \in i2c_sr THEN i2c_sr \ {f} ELSE i2c_sr \cup {f}
    /\ UNCHANGED <<wr, i2c_writes, ckcu_vars, gpio_vars, driver_vars>>

I2cNext ==
    \/ \E addr \in Addrs : \E bytes \in ByteStrings : i2c_write(addr, bytes)
    \/ i2c_wait_sta
    \/ i2c_wait_adrs
    \/ i2c_wait_txde
    \/ i2c_dr
    \/ i2c_stop
    \/ \E f \in Flags : i2c_flag(f)

I2cSpec == Init /\ [][I2cNext]_vars

----------------------------------------------------------------------------
(* Vocabulary of the properties *)

(* freeze has finished computing and is writing registers, or has returned *)
Committing ==
    pc \in {"pllsrc", "pllcfg", "pllen", "pllwait", "flash", "sw", "ahb", "adc",
            "ckout", "return", "done"}

(* the register fields written so far, in order *)
WriteRegs == [i \in 1..Len(writes) |-> writes[i].reg]

Wrote(reg) == \E i \in 1..Len(writes) : writes[i].reg = reg

IsPrefix(p, q) == Len(p) <= Len(q) /\ \A i \in 1..Len(p) : p[i] = q[i]

(* the mux codes of the oscillators whose frequency is exactly f *)
MatchingOscCodes(f) ==
    (IF cfg.lse = <<f>> THEN {6} ELSE {}) \cup (IF cfg.hse = <<f>> THEN {2} ELSE {})
    \cup (IF f = 32000 THEN {7} ELSE {}) \cup (IF f = 8000000 THEN {3} ELSE {})

(* an explicit CK_SYS target within the ceiling that some oscillator matches *)
SysTargetMatchesOsc ==
    /\ IsSome(cfg.ck_sys)
    /\ Unwrap(cfg.ck_sys) <= 48000000
    /\ MatchingOscCodes(Unwrap(cfg.ck_sys)) # {}

(* the frequency of the oscillator a non-PLL mux code selects *)
OscFreq(code) ==
    CASE code = 6 -> Unwrap(cfg.lse) [] code = 2 -> Unwrap(cfg.hse)
      [] code = 7 -> 32000 [] code = 3 -> 8000000

(* the PLL was neither searched for, configured nor enabled *)
PllUntouched ==
    /\ pc # "search"
    /\ loc.search = SearchInit
    /\ ~Wrote("pllsrc") /\ ~Wrote("pllcfg") /\ ~Wrote("pllen")
    /\ regs.pllen = 0

(* (nf2, no2) is legal for the source h, in exact integer arithmetic *)
LegalPair(h, nf, no) ==
    /\ 2 * h * nf >= 48000000 /\ 2 * h * nf <= 96000000
    /\ h * nf > 4000000 * no /\ h * nf < 48000000 * no

NoLegalPair(h) == \A nf \in 1..16 : \A no \in {1, 2, 4, 8} : ~LegalPair(h, nf, no)

----------------------------------------------------------------------------
(* C1: whenever the achieved bus clock is above 24 MHz, the write of      *)
(* FMC CFCR.WAIT = 0b010 comes strictly before the write of GCCR.SW.      *)
C1_FlashWaitBeforeSw ==
    (Wrote("sw") /\ loc.hclk > 24000000) =>
        \E i, j \in 1..Len(writes) :
            /\ i < j
            /\ writes[i] = [reg |-> "wait", val |-> 2]
            /\ writes[j].reg = "sw"

C1_Witness == pc = "done" /\ Unwrap(clocks).hclk > 24000000 /\ Wrote("sw")

(* C2: with a PLL target, freeze writes PLLSRC, the divider fields and    *)
(* PLLEN, in this order, and then polls PLLRDY; no later register is      *)
(* written and freeze does not return before PLLRDY has been read set.    *)
C2_PllReadyBeforeLaterSteps ==
    (Committing /\ IsSome(loc.pll_target_clock)) =>
        /\ (pc \notin {"pllsrc", "pllcfg", "pllen"}) =>
               /\ Len(writes) >= 3
               /\ <<writes[1].reg, writes[2].reg, writes[3].reg>> = <<"pllsrc", "pllcfg", "pllen">>
        /\ (Len(writes) > 3 \/ clocks # None \/ pc \notin {"pllsrc", "pllcfg", "pllen", "pllwait"}) =>
               /\ regs.pllrdy = 1
               /\ pllrdy_seen

C2_Witness == pc = "done" /\ IsSome(loc.pll_target_clock) /\ polls > 0 /\ clocks # None

(* the order C3 states: the PLL steps iff a PLL target exists, the flash  *)
(* step iff the bus clock is above 24 MHz, CKOUT iff asked for, and last  *)
C3_Expected ==
    (IF IsSome(loc.pll_target_clock) THEN <<"pllsrc", "pllcfg", "pllen">> ELSE <<>>)
    \o (IF loc.hclk > 24000000 THEN <<"wait">> ELSE <<>>)
    \o <<"sw", "ahbpre", "adcdiv">>
    \o (IF IsSome(cfg.ckout) THEN <<"ckoutsrc">> ELSE <<>>)

(* C3: the writes of freeze are, at every moment, an initial part of the  *)
(* fixed order (so each occurs at most once and none out of order), and   *)
(* the Clocks value exists only once all of them are made.                *)
C3_FixedWriteOrder ==
    /\ ~Committing => writes = <<>> /\ clocks = None
    /\ Committing =>
          /\ IsPrefix(WriteRegs, C3_Expected)
          /\ (clocks # None \/ pc \in {"return", "done"}) => WriteRegs = C3_Expected
          /\ (clocks # None) <=> (pc = "done")

C3_Witness == pc = "done" /\ clocks # None /\ Len(writes) = 8

C5_Original ==
    (SysTargetMatchesOsc /\ pc # "build") =>
        /\ Committing => loc.sw \in MatchingOscCodes(Unwrap(cfg.ck_sys))
        /\ PllUntouched

(* C5 as amended: the mux code is that oscillator's whatever the other    *)
(* fields; the PLL is left alone provided no CK_USB target is declared.   *)
C5_OscMatchNoPll ==
    (SysTargetMatchesOsc /\ pc # "build") =>
        /\ Committing => loc.sw \in MatchingOscCodes(Unwrap(cfg.ck_sys))
        /\ (pc = "done") => regs.sw \in MatchingOscCodes(Unwrap(cfg.ck_sys))
        /\ IsNone(cfg.ck_usb) => PllUntouched

C5_Witness ==
    /\ pc = "done"
    /\ cfg.ck_sys = <<8000000>>
    /\ IsNone(cfg.hse)
    /\ IsNone(cfg.ck_usb)
    /\ IsSome(cfg.hclk)
    /\ regs.sw = 3

(* C6: whenever CK_SYS is resolved to a fixed oscillator, the ck_sys of   *)
(* the returned Clocks is that oscillator's frequency, whatever the other *)
(* fields are.                                                            *)
C6_OscFrequencyExact ==
    (pc = "done" /\ regs.sw # 0) => Unwrap(clocks).ck_sys = OscFreq(regs.sw)

(* C7: an explicit CK_SYS target within the ceiling takes the first match *)
(* of LSE (0b110), HSE (0b010), LSI (0b111), HSI (0b011), else the PLL    *)
(* (0b000) with the target as PLL target.                                 *)
C7_SourcePrecedence ==
    (Committing /\ IsSome(cfg.ck_sys)) =>
        LET t == Unwrap(cfg.ck_sys)
            code == IF cfg.lse = <<t>> THEN 6
                    ELSE IF cfg.hse = <<t>> THEN 2
                    ELSE IF t = 32000 THEN 7
                    ELSE IF t = 8000000 THEN 3
                    ELSE 0
        IN /\ loc.sw = code
           /\ \A i \in 1..Len(writes) : writes[i].reg = "sw" => writes[i].val = code
           /\ (pc = "done") => regs.sw = code
           /\ (code = 0) => loc.pll_target_clock = <<t>>

C7_Witness ==
    /\ pc = "done"
    /\ cfg.hse = <<8000000>>
    /\ cfg.ck_sys = <<8000000>>
    /\ regs.sw = 2

(* C8: with no CK_SYS target freeze selects the LSE if declared (0b110,   *)
(* ck_sys = its frequency), else the LSI (0b111, ck_sys = 32 000 Hz), and *)
(* the system clock sets no PLL target.                                   *)
C8_DefaultLowSpeed ==
    (pc = "done" /\ IsNone(cfg.ck_sys)) =>
        /\ IF IsSome(cfg.lse)
           THEN regs.sw = 6 /\ Unwrap(clocks).ck_sys = Unwrap(cfg.lse)
           ELSE regs.sw = 7 /\ Unwrap(clocks).ck_sys = 32000
        /\ loc.pll_target_clock \in {None, cfg.ck_usb}

(* the feedback divider the PFBD field stands for *)
Nf2OfCode(code) == IF code = 0 THEN 16 ELSE code

(* C9: on the PLL path the achieved system clock lies strictly between    *)
(* 4 MHz and 48 MHz and the VCO of the programmed pair within 48..96 MHz. *)
C9_PllRanges ==
    (pc = "done" /\ regs.sw = 0) =>
        /\ Unwrap(clocks).ck_sys > 4000000
        /\ Unwrap(clocks).ck_sys < 48000000
        /\ (loc.hso * (4 * Nf2OfCode(regs.pfbd))) \div 2 >= 48000000
        /\ (loc.hso * (4 * Nf2OfCode(regs.pfbd))) \div 2 <= 96000000

(* C10: with a PLL target and no legal divider pair for the source,       *)
(* freeze programs no divider pair, does not enable the PLL and returns   *)
(* no Clocks value.                                                       *)
C10_NoCandidateIsAnError ==
    (pc \notin {"build", "search"} /\ IsSome(loc.pll_target_clock)
       /\ NoLegalPair(UnwrapOr(cfg.hse, 8000000))) =>
        /\ ~Wrote("pllcfg")
        /\ ~Wrote("pllen")
        /\ regs.pllen = 0
        /\ clocks = None

(* 8 * hso * |nf2 / no2 - target / hso|: the distance of a pair from the  *)
(* ideal ratio, in exact integer arithmetic                               *)
RatioDistance(h, t, nf, no) ==
    LET d == nf * h * (8 \div no) - 8 * t IN IF d < 0 THEN 0 - d ELSE d

(* the pair p comes no later than (nf, no) in the order of the two loops  *)
NotAfter(p, nf, no) == p[1] < nf \/ (p[1] = nf /\ p[2] <= no)

(* C11: when a legal pair exists the search ends on a legal pair that is  *)
(* nearest to target / hso among the legal pairs, and on the first such   *)
(* pair in ascending feedback, then ascending output divider order.       *)
C11_SearchMinimises ==
    (pc \notin {"build", "search"} /\ IsSome(loc.pll_target_clock)
       /\ ~NoLegalPair(loc.hso)) =>
        LET h == loc.hso
            t == Unwrap(loc.pll_target_clock)
            c == loc.search.closest
        IN /\ LegalPair(h, c[1], c[2])
           /\ \A nf \in 1..16 : \A no \in {1, 2, 4, 8} :
                 LegalPair(h, nf, no) =>
                    \/ RatioDistance(h, t, c[1], c[2]) < RatioDistance(h, t, nf, no)
                    \/ /\ RatioDistance(h, t, c[1], c[2]) = RatioDistance(h, t, nf, no)
                       /\ NotAfter(c, nf, no)

(* C12: whenever a PLL target exists, ck_sys and ck_usb of the returned   *)
(* Clocks both are hso * feedback / output (the integer part of it) for   *)
(* the pair the search ended on.                                          *)
C12_ClocksArePllOutput ==
    (pc = "done" /\ IsSome(loc.pll_target_clock)) =>
        LET c == loc.search.closest
        IN /\ Unwrap(clocks).ck_sys = (loc.hso * c[1]) \div c[2]
           /\ Unwrap(clocks).ck_usb = Unwrap(clocks).ck_sys

(* the configuration of C13: CK_SYS target 32 MHz, no HSE, no CK_USB *)
C13_Scenario ==
    IsNone(cfg.hse) /\ cfg.ck_sys = <<32000000>> /\ IsNone(cfg.ck_usb)

(* C13: with no HSE, a CK_SYS target of 32 MHz and no CK_USB target,      *)
(* freeze takes the PLL path (SW = 0b000), the search ends on feedback 4  *)
(* / output 1 (VCO 64 MHz), and the returned Clocks has ck_sys = 32 MHz   *)
(* exactly and ck_usb = ck_sys.                                           *)
C13_Hsi32MHz ==
    (C13_Scenario /\ Committing) =>
        /\ loc.sw = 0
        /\ loc.pll_target_clock = <<32000000>>
        /\ loc.search.closest = <<4, 1>>
        /\ (8000000 * (4 * loc.search.closest[1])) \div 2 = 64000000
        /\ (pc = "done") =>
              /\ regs.sw = 0
              /\ regs.pfbd = 4 /\ regs.potd = 0
              /\ Unwrap(clocks).ck_sys = 32000000
              /\ Unwrap(clocks).ck_usb = Unwrap(clocks).ck_sys

C13_Witness == C13_Scenario /\ pc = "done" /\ clocks # None /\ regs.pllrdy = 1

(* the CK_SYS target is declared and no oscillator has its frequency *)
SysTargetNeedsPll ==
    IsSome(cfg.ck_sys) /\ MatchingOscCodes(Unwrap(cfg.ck_sys)) = {}

(* freeze is past both assertions *)
Resolved == pc # "build" /\ loc.panic \notin {"assert_ck_sys", "assert_ck_usb"}

(* C14: the PLL goes to the system clock first: a CK_SYS target on the    *)
(* PLL path is the PLL target whether or not a CK_USB target is declared, *)
(* a declared CK_USB target is the PLL target exactly when CK_SYS set     *)
(* none, and with neither the PLL has no target and Clocks.ck_usb is 0.   *)
C14_PllSharing ==
    Resolved =>
        /\ SysTargetNeedsPll => loc.pll_target_clock = cfg.ck_sys
        /\ (IsSome(cfg.ck_usb) /\ ~SysTargetNeedsPll) => loc.pll_target_clock = cfg.ck_usb
        /\ (IsSome(cfg.ck_usb) /\ SysTargetNeedsPll /\ cfg.ck_usb # cfg.ck_sys) =>
              loc.pll_target_clock # cfg.ck_usb
        /\ (IsNone(cfg.ck_usb) /\ ~SysTargetNeedsPll) =>
              /\ loc.pll_target_clock = None
              /\ PllUntouched
              /\ (pc = "done") => Unwrap(clocks).ck_usb = 0

C14_Witness ==
    /\ pc = "done"
    /\ SysTargetNeedsPll
    /\ IsSome(cfg.ck_usb)
    /\ loc.pll_target_clock = cfg.ck_sys
    /\ cfg.ck_usb # cfg.ck_sys

(* the divider an AHBPRE code stands for *)
AhbDivOfCode(code) ==
    CASE code = 0 -> 1 [] code = 1 -> 2 [] code = 2 -> 4 [] code = 4 -> 8 [] code = 7 -> 16

(* the bus divider C15 states for a ratio *)
C15_Bracket(r) ==
    IF r = 1 THEN 1 ELSE IF r \in 2..3 THEN 2 ELSE IF r \in 4..7 THEN 4
    ELSE IF r \in 8..15 THEN 8 ELSE 16

(* the ratio of the achieved system clock to the declared bus target *)
AhbRatio == Unwrap(clocks).ck_sys \div Unwrap(cfg.hclk)

(* C15: with a bus target the divider is the bracket of ck_sys div target *)
(* (1 -> 1, 2..3 -> 2, 4..7 -> 4, 8..15 -> 8, 16.. -> 16) and hclk is     *)
(* ck_sys div divider; with none the divider is 1 and hclk = ck_sys; the  *)
(* divider is one of 1, 2, 4, 8, 16.                                      *)
C15_BusDivider ==
    (pc = "done") =>
        /\ loc.ahb_div \in {0, 1, 2, 4, 7}
        /\ AhbDivOfCode(loc.ahb_div) \in {1, 2, 4, 8, 16}
        /\ IsSome(cfg.hclk) =>
              /\ AhbRatio >= 1
              /\ AhbDivOfCode(loc.ahb_div) = C15_Bracket(AhbRatio)
              /\ Unwrap(clocks).hclk = Unwrap(clocks).ck_sys \div C15_Bracket(AhbRatio)
              /\ AhbRatio \in {4, 5, 7} => AhbDivOfCode(loc.ahb_div) = 4
              /\ AhbRatio = 8 => AhbDivOfCode(loc.ahb_div) = 8
        /\ IsNone(cfg.hclk) =>
              /\ AhbDivOfCode(loc.ahb_div) = 1
              /\ Unwrap(clocks).hclk = Unwrap(clocks).ck_sys

C15_Witness ==
    /\ pc = "done"
    /\ IsSome(cfg.hclk)
    /\ AhbRatio = 7
    /\ AhbDivOfCode(loc.ahb_div) = 4
    /\ Unwrap(clocks).hclk = Unwrap(clocks).ck_sys \div 4

(* bus targets to compare the declared one with: the declared values and  *)
(* the targets that put the ratio at 1..17                                *)
C16_Targets ==
    {t \in HclkFreqs \cup {Unwrap(clocks).ck_sys \div k : k \in 1..17} :
        t > 0 /\ Unwrap(clocks).ck_sys \div t >= 1}

(* the divider freeze selects for the bus target t at the achieved ck_sys *)
C16_DividerFor(t) == AhbPrescaler(Unwrap(clocks).ck_sys \div t)[2]

(* C16: at a fixed achieved system clock, a larger bus target never gets  *)
(* a larger divider: against the divider freeze chose for the declared    *)
(* target, every larger target gets at most it, every smaller at least.   *)
C16_BusDividerMonotonic ==
    (pc = "done" /\ IsSome(cfg.hclk)) =>
        /\ C16_DividerFor(Unwrap(cfg.hclk)) = AhbDivOfCode(loc.ahb_div)
        /\ \A t \in C16_Targets :
              /\ t >= Unwrap(cfg.hclk) => C16_DividerFor(t) <= AhbDivOfCode(loc.ahb_div)
              /\ t <= Unwrap(cfg.hclk) => C16_DividerFor(t) >= AhbDivOfCode(loc.ahb_div)
        /\ \A t1, t2 \in C16_Targets :
              t1 <= t2 => C16_DividerFor(t2) <= C16_DividerFor(t1)

C16_Witness ==
    /\ pc = "done"
    /\ IsSome(cfg.hclk)
    /\ AhbDivOfCode(loc.ahb_div) = 4
    /\ \E t \in C16_Targets : t > Unwrap(cfg.hclk) /\ C16_DividerFor(t) = 2
    /\ \E t \in C16_Targets : t < Unwrap(cfg.hclk) /\ C16_DividerFor(t) = 8

(* C17: in every Clocks value freeze returns, stclk is hclk div 8,        *)
(* whatever the setters were called with.                                 *)
C17_TickIsBusDiv8 ==
    (clocks # None) =>
        /\ Unwrap(clocks).stclk = Unwrap(clocks).hclk \div 8
        /\ 8 * Unwrap(clocks).stclk <= Unwrap(clocks).hclk
        /\ Unwrap(clocks).hclk < 8 * Unwrap(clocks).stclk + 8

C17_Witness ==
    /\ pc = "done"
    /\ IsSome(cfg.hclk) /\ IsSome(cfg.ck_sys) /\ IsSome(cfg.ck_adc_ip)
    /\ Unwrap(clocks).hclk % 8 # 0
    /\ Unwrap(clocks).stclk = Unwrap(clocks).hclk \div 8

(* the divider an ADCDIV code stands for *)
AdcDivOfCode(code) ==
    CASE code = 0 -> 1 [] code = 1 -> 2 [] code = 7 -> 3 [] code = 2 -> 4
      [] code = 3 -> 8 [] code = 4 -> 16 [] code = 5 -> 32 [] code = 6 -> 64

(* the ADC divider C18 states for a ratio *)
C18_Bracket(r) ==
    IF r \in 1..3 THEN r ELSE IF r \in 4..7 THEN 4 ELSE IF r \in 8..15 THEN 8
    ELSE IF r \in 16..31 THEN 16 ELSE IF r \in 32..63 THEN 32 ELSE 64

(* the ratio of the achieved bus clock to the declared ADC target *)
AdcRatio == Unwrap(clocks).hclk \div Unwrap(cfg.ck_adc_ip)

(* C18: with an ADC target the divider is the bracket of hclk div target  *)
(* (1, 2, 3, 4..7 -> 4, 8..15 -> 8, 16..31 -> 16, 32..63 -> 32, 64.. ->   *)
(* 64) and ck_adc_ip is hclk div divider; with none the divider is 1; the *)
(* eight dividers are written with eight different 3-bit codes.           *)
C18_AdcDivider ==
    /\ Cardinality({AdcPrescaler(r)[1] : r \in {1, 2, 3, 4, 8, 16, 32, 64}}) = 8
    /\ \A r \in 1..130 : AdcPrescaler(r)[1] \in 0..7 /\ AdcPrescaler(r)[2] = C18_Bracket(r)
    /\ (pc = "done") =>
          /\ regs.adcdiv = loc.adc_div
          /\ loc.adc_div \in 0..7
          /\ AdcDivOfCode(loc.adc_div) \in {1, 2, 3, 4, 8, 16, 32, 64}
          /\ IsSome(cfg.ck_adc_ip) =>
                /\ AdcRatio >= 1
                /\ AdcDivOfCode(loc.adc_div) = C18_Bracket(AdcRatio)
                /\ Unwrap(clocks).ck_adc_ip = Unwrap(clocks).hclk \div C18_Bracket(AdcRatio)
          /\ IsNone(cfg.ck_adc_ip) =>
                /\ AdcDivOfCode(loc.adc_div) = 1
                /\ Unwrap(clocks).ck_adc_ip = Unwrap(clocks).hclk

C18_Witness ==
    /\ pc = "done"
    /\ IsSome(cfg.ck_adc_ip)
    /\ AdcRatio = 3
    /\ regs.adcdiv = 7
    /\ Unwrap(clocks).ck_adc_ip = Unwrap(clocks).hclk \div 3

(* the output divider the POTD field stands for *)
No2OfCode(code) == 2 ^ code

(* the frequency of the source the written SW code selects *)
C19_SelectedSourceFreq ==
    IF regs.sw = 0
    THEN (loc.hso * Nf2OfCode(regs.pfbd)) \div No2OfCode(regs.potd)
    ELSE OscFreq(regs.sw)

(* C19: whenever freeze has returned a Clocks value, the source the       *)
(* written SW code selects runs at Clocks.ck_sys, the written AHBPRE code *)
(* stands for the divider from ck_sys to hclk, and the written ADCDIV     *)
(* code for the divider from hclk to ck_adc_ip.                           *)
C19_RegistersMatchClocks ==
    (clocks # None) =>
        /\ C19_SelectedSourceFreq = Unwrap(clocks).ck_sys
        /\ Unwrap(clocks).hclk = Unwrap(clocks).ck_sys \div AhbDivOfCode(regs.ahbpre)
        /\ Unwrap(clocks).ck_adc_ip = Unwrap(clocks).hclk \div AdcDivOfCode(regs.adcdiv)

(* freeze was called and no PLL target exists *)
C20_NoPllTarget == pc # "build" /\ IsNone(loc.pll_target_clock)

(* PLLEN is written and the hardware has not raised PLLRDY *)
C20_WaitingForLock == Wrote("pllen") /\ regs.pllrdy = 0

(* the parts of C20 that hold as claimed: without a PLL target freeze     *)
(* never polls; with one, once PLLRDY is set (it stays set) freeze goes   *)
(* on to return a Clocks value; while PLLRDY is clear freeze is in the    *)
(* poll loop, has returned nothing and PLLEN is its last write.           *)
C20_PollParts ==
    /\ [](C20_NoPllTarget => (polls = 0 /\ pc # "pllwait" /\ ~Wrote("pllen")))
    /\ (IsSome(loc.pll_target_clock) /\ Wrote("pllen") /\ regs.pllrdy = 1) ~> (clocks # None)
    /\ [](C20_WaitingForLock =>
            (pc = "pllwait" /\ clocks = None /\ Len(writes) = 3 /\ ~pllrdy_seen))
    /\ []((pc = "pllwait" /\ polls = MaxPolls) => (clocks = None /\ regs.pllen = 1))

C21_PllEncoding ==
    /\ \A nf \in 1..16 : Nf2Code(nf) = (IF nf = 16 THEN 0 ELSE nf) /\ Nf2Code(nf) \in 0..15
    /\ <<No2Code(1), No2Code(2), No2Code(4), No2Code(8)>> = <<0, 1, 2, 3>>
    /\ Cardinality({<<Nf2Code(nf), No2Code(no)>> : nf \in 1..16, no \in {1, 2, 4, 8}}) = 64
    /\ Wrote("pllcfg") =>
          LET c == loc.search.closest
          IN /\ regs.pfbd = (IF c[1] = 16 THEN 0 ELSE c[1])
             /\ regs.potd = (CASE c[2] = 1 -> 0 [] c[2] = 2 -> 1 [] c[2] = 4 -> 2 [] c[2] = 8 -> 3)
             /\ writes[2] = [reg |-> "pllcfg", val |-> regs.pfbd * 4 + regs.potd]
             /\ Nf2OfCode(regs.pfbd) = c[1] /\ No2OfCode(regs.potd) = c[2]
    /\ Wrote("pllsrc") =>
          /\ (regs.pllsrc = 1) <=> IsSome(cfg.hse)
          /\ writes[1] = [reg |-> "pllsrc", val |-> IF IsSome(cfg.hse) THEN 1 ELSE 0]

C21_Witness ==
    /\ pc = "done"
    /\ loc.search.closest[1] = 16
    /\ regs.pfbd = 0
    /\ regs.pllsrc = 1

(* the arguments the model calls the setter of a field with *)
SetterArgs(field) ==
    CASE field = "ckout" -> CkoutSrcs [] field = "hse" -> HseFreqs
      [] field = "lse" -> LseFreqs [] field = "ck_usb" -> CkUsbFreqs
      [] field = "ck_adc_ip" -> CkAdcIpFreqs [] field = "ck_sys" -> CkSysFreqs
      [] field = "hclk" -> HclkFreqs

(* while the Configuration is built nothing has failed or been written *)
C22_BuildIsPure ==
    pc = "build" =>
        /\ loc = NoLocals /\ regs = ResetRegs /\ writes = <<>> /\ clocks = None
        /\ \A a, b \in DOMAIN cfg : \A x \in SetterArgs(a) : \A y \in SetterArgs(b) :
              /\ SetField(cfg, a, x)[a] = <<x>>
              /\ \A k \in DOMAIN cfg \ {a} : SetField(cfg, a, x)[k] = cfg[k]
              /\ a # b => SetField(SetField(cfg, a, x), b, y) = SetField(SetField(cfg, b, y), a, x)
              /\ a = b => SetField(SetField(cfg, a, x), b, y) = SetField(cfg, b, y)

(* a step of the builder replaces one field by Some(argument) and touches *)
(* nothing else; a failure arises only in a step of freeze, which ends it *)
C22_SetterStep ==
    /\ (pc = "build" /\ pc' = "build") =>
          /\ \E k \in DOMAIN cfg :
                /\ cfg'[k] # None /\ cfg'[k][1] \in SetterArgs(k)
                /\ \A j \in DOMAIN cfg \ {k} : cfg'[j] = cfg[j]
          /\ UNCHANGED <<loc, regs, writes, polls, pllrdy_seen, clocks>>
    /\ (loc'.panic # loc.panic) =>
          /\ pc \in {"build", "prescale"} /\ pc' = "panicked"
          /\ cfg' = cfg
    /\ (pc' # "build") => cfg' = cfg

(* C22: every setter replaces its own field only, for any argument, the   *)
(* values above the ceilings included, without failing or writing a       *)
(* register; setters of different fields commute, a repeated setter keeps *)
(* the last value; failures arise in freeze alone.                        *)
C22_SettersAreFrameOnly == []C22_BuildIsPure /\ [][C22_SetterStep]_vars

C22_Witness ==
    /\ pc = "build"
    /\ cfg.ck_sys = <<50000000>>
    /\ cfg.ck_usb = <<48000000>>
    /\ cfg.hclk = <<8000000>>
    /\ cfg.hse = <<12000000>>

(* <<hso, PLL target, feedback, output>>: the pair the search of 224-262  *)
(* ends on for each high speed source and PLL target of the model         *)
C23_Pairs ==
    {<<1000000, e[1], e[2], e[3]>> : e \in
        {<<32000, 1, 1>>,
         <<32768, 1, 1>>,
         <<8000000, 1, 1>>,
         <<12000000, 1, 1>>,
         <<21999999, 1, 1>>,
         <<24000000, 1, 1>>,
         <<32000000, 1, 1>>,
         <<40000000, 1, 1>>,
         <<48000000, 1, 1>>}}
    \cup
    {<<2000000, e[1], e[2], e[3]>> : e \in
        {<<32000, 12, 4>>,
         <<32768, 12, 4>>,
         <<8000000, 16, 4>>,
         <<12000000, 12, 2>>,
         <<21999999, 12, 1>>,
         <<24000000, 12, 1>>,
         <<32000000, 16, 1>>,
         <<40000000, 16, 1>>,
         <<48000000, 16, 1>>}}
    \cup
    {<<8000000, e[1], e[2], e[3]>> : e \in
        {<<32000, 5, 8>>,
         <<32768, 5, 8>>,
         <<8000000, 4, 4>>,
         <<12000000, 3, 2>>,
         <<21999999, 3, 1>>,
         <<24000000, 3, 1>>,
         <<32000000, 4, 1>>,
         <<40000000, 5, 1>>,
         <<48000000, 5, 1>>}}
    \cup
    {<<12000000, e[1], e[2], e[3]>> : e \in
        {<<32000, 3, 8>>,
         <<32768, 3, 8>>,
         <<8000000, 3, 4>>,
         <<12000000, 2, 2>>,
         <<21999999, 2, 1>>,
         <<24000000, 2, 1>>,
         <<32000000, 3, 1>>,
         <<40000000, 3, 1>>,
         <<48000000, 3, 1>>}}
    \cup
    {<<12000001, e[1], e[2], e[3]>> : e \in
        {<<32000, 3, 8>>,
         <<32768, 3, 8>>,
         <<8000000, 3, 4>>,
         <<12000000, 2, 2>>,
         <<21999999, 2, 1>>,
         <<24000000, 2, 1>>,
         <<32000000, 3, 1>>,
         <<40000000, 3, 1>>,
         <<48000000, 3, 1>>}}

(* C23: the pair the search ends on is a function of the high speed       *)
(* source and the PLL target alone: whatever the LSE, bus, ADC and CKOUT  *)
(* fields are, it is the one pair listed for (hso, target).               *)
C23_SearchDeterministic ==
    /\ \A e1, e2 \in C23_Pairs : (e1[1] = e2[1] /\ e1[2] = e2[2]) => e1 = e2
    /\ (pc \notin {"build", "search"} /\ IsSome(loc.pll_target_clock)) =>
          /\ <<loc.hso, Unwrap(loc.pll_target_clock),
               loc.search.closest[1], loc.search.closest[2]>> \in C23_Pairs
          /\ loc.hso = UnwrapOr(cfg.hse, 8000000)
    /\ (pc = "build" \/ IsNone(loc.pll_target_clock)) => loc.search = SearchInit
    /\ (pc \in {"build", "search"}) => regs = ResetRegs

C23_Witness ==
    /\ pc = "done"
    /\ loc.hso = 8000000 /\ loc.pll_target_clock = <<32000000>>
    /\ loc.search.closest = <<4, 1>>
    /\ IsSome(cfg.lse) /\ IsSome(cfg.hclk) /\ IsSome(cfg.ck_adc_ip) /\ IsSome(cfg.ckout)
    /\ IsSome(cfg.ck_usb)

(* the bus clock the hardware runs at: the source the SW field selects    *)
(* now, divided by the divider the AHBPRE field holds now                 *)
C27_EffectiveBusClock == C19_SelectedSourceFreq \div AhbDivOfCode(regs.ahbpre)

(* C27: from the reset state on and in every intermediate state of the    *)
(* commit sequence, the effective bus clock is above 24 MHz only if the   *)
(* flash wait states have been raised (FMC CFCR.WAIT = 0b010).            *)
C27_WaitStatesCoverBusClock ==
    (C27_EffectiveBusClock > 24000000) => regs.wait = 2

(* every declared target is within the preconditions C28 names *)
C28_Preconditions ==
    /\ IsSome(cfg.ck_sys) => Unwrap(cfg.ck_sys) <= 48000000
    /\ IsSome(cfg.ck_usb) => Unwrap(cfg.ck_usb) < 48000000
    /\ IsSome(cfg.hclk) =>
          /\ Unwrap(cfg.hclk) > 0
          /\ IsSome(cfg.ck_sys)
          /\ Unwrap(cfg.hclk) <= Unwrap(cfg.ck_sys)
    /\ IsSome(cfg.ck_adc_ip) =>
          /\ Unwrap(cfg.ck_adc_ip) > 0
          /\ IsSome(cfg.hclk)
          /\ Unwrap(cfg.ck_adc_ip) <= Unwrap(cfg.hclk)

(* C28: under these preconditions freeze does not abort in the prescaler  *)
(* calculation: the ratio of the achieved system clock to the bus target  *)
(* is never 0, also when the PLL achieves less than the system target.    *)
C28_PrescalerNeverAborts ==
    (pc # "build" /\ C28_Preconditions) =>
        loc.panic \notin {"ahb_divide_by_zero", "ahb_unreachable",
                          "adc_divide_by_zero", "adc_unreachable"}

(* C29: in every Clocks value freeze returns, ck_adc_ip <= hclk <= ck_sys; *)
(* with a declared bus target t, hclk >= t, and hclk < 2 * t when the     *)
(* ratio ck_sys div t is below 32.                                        *)
C29_BusClockBounds ==
    (clocks # None) =>
        /\ Unwrap(clocks).ck_adc_ip <= Unwrap(clocks).hclk
        /\ Unwrap(clocks).hclk <= Unwrap(clocks).ck_sys
        /\ IsSome(cfg.hclk) =>
              /\ Unwrap(clocks).hclk >= Unwrap(cfg.hclk)
              /\ AhbRatio < 32 => Unwrap(clocks).hclk < 2 * Unwrap(cfg.hclk)

C29_Witness ==
    /\ pc = "done"
    /\ IsSome(cfg.hclk) /\ IsSome(cfg.ck_adc_ip)
    /\ AhbRatio \in 16..31
    /\ Unwrap(clocks).hclk > Unwrap(cfg.hclk)
    /\ Unwrap(clocks).ck_adc_ip < Unwrap(clocks).hclk

(* C24: after any sequence of set_high / set_low calls on the pins of one *)
(* port, typed or type-erased, is_set_high(p) is TRUE exactly when the    *)
(* last call on p was set_high: a call on one pin leaves the bits of the  *)
(* other pins as they were.                                               *)
C24_IsSetHighReflectsLastCall ==
    \A p \in Pins :
        /\ last_call[p] = "set_high" => IsSetHigh(doutr, p)
        /\ last_call[p] = "set_low" => ~IsSetHigh(doutr, p)

(* the instances given to a constructor so far *)
C25_Taken ==
    {inst \in Instances : drivers[inst] # None \/ (ctor # None /\ Unwrap(ctor).inst = inst)}

(* the reset bit and the clock-enable bit that belong to an instance *)
C25_OwnRst(inst) ==
    CASE inst = "UART0" -> "ur0rst" [] inst = "UART1" -> "ur1rst"
      [] inst = "USART0" -> "usr0rst" [] inst = "USART1" -> "usr1rst"
      [] inst = "I2C0" -> "i2c0rst" [] inst = "I2C1" -> "i2c1rst"
      [] inst = "SPI0" -> "spi0rst" [] inst = "SPI1" -> "spi1rst"

C25_OwnEn(inst) ==
    CASE inst = "UART0" -> "ur0en" [] inst = "UART1" -> "ur1en"
      [] inst = "USART0" -> "usr0en" [] inst = "USART1" -> "usr1en"
      [] inst = "I2C0" -> "i2c0en" [] inst = "I2C1" -> "i2c1en"
      [] inst = "SPI0" -> "spi0en" [] inst = "SPI1" -> "spi1en"

(* the constructor of inst is at or past its configuration *)
C25_PastEnable(inst) ==
    \/ drivers[inst] # None
    \/ (ctor # None /\ Unwrap(ctor).inst = inst /\ Unwrap(ctor).pc = "configure")

(* C25: when a constructor configures its instance it has set the reset   *)
(* bit and the clock-enable bit of that instance, and the bits set are    *)
(* those of the instances given to a constructor and of no other.         *)
C25_ConstructorsUseOwnBits ==
    /\ \A inst \in Instances :
          C25_PastEnable(inst) =>
              /\ C25_OwnRst(inst) \in apbprstr0
              /\ C25_OwnEn(inst) \in apbccr0
    /\ apbprstr0 \subseteq {C25_OwnRst(inst) : inst \in C25_Taken}
    /\ apbccr0 \subseteq {C25_OwnEn(inst) : inst \in C25_Taken}

(* CPOL xor CPHA of a mode, and the 3-bit number C26 states *)
C26_Xor(mode) == (Cpol(mode) + Cpha(mode)) % 2

C26_Format(mode) == 4 * Cpol(mode) + 2 * C26_Xor(mode) + (1 - C26_Xor(mode))

(* C26: the FORMAT field written for a mode is CPOL, CPOL xor CPHA and    *)
(* the negation of CPOL xor CPHA, from the most to the least significant  *)
(* bit: MODE_0 0b001, MODE_1 0b010, MODE_2 0b110, MODE_3 0b101.           *)
C26_FormatOfMode ==
    /\ {C26_Format(m) : m \in Modes} = {1, 2, 6, 5}
    /\ \A inst \in Spis :
          drivers[inst] # None => spi_cr1[inst] = C26_Format(Unwrap(drivers[inst]))

(* the register writes of a full call: the address, the bytes, the STOP *)
C30_Expected ==
    <<[reg |-> "tar", val |-> (2 * wr.addr) % 256]>>
    \o [k \in 1..Len(wr.bytes) |-> [reg |-> "dr", val |-> wr.bytes[k]]]
    \o <<[reg |-> "stop", val |-> 1]>>

(* the error C30 states for a status: arbitration loss, NACK, bus error *)
C30_Error(status) ==
    CASE "arblos" \in status -> "Arbitration"
      [] "arblos" \notin status /\ "rxnack" \in status -> "NotAcknowledge"
      [] {"arblos", "rxnack"} \cap status = {} /\ "buserr" \in status -> "Bus"

(* the status read last left the awaited flag clear and shows an error *)
C30_ErrorSeen ==
    /\ wr.status # None
    /\ wr.wait \notin Unwrap(wr.status)
    /\ Unwrap(wr.status) \cap {"arblos", "rxnack", "buserr"} # {}

(* C30: write writes the address, then the bytes in order, then STOP once *)
(* and returns Ok; a status read in a wait that has the awaited flag      *)
(* clear and an error flag set makes write return that error (arbitration *)
(* loss before NACK before bus error) with no further data write and no   *)
(* STOP.                                                                  *)
C30_WriteProtocol ==
    (wr.pc # "idle") =>
        /\ IsPrefix(i2c_writes, C30_Expected)
        /\ Len(i2c_writes) >= 1
        /\ (wr.result = Some([ok |-> TRUE])) <=> (i2c_writes = C30_Expected)
        /\ C30_ErrorSeen =>
              /\ wr.pc = "returned"
              /\ wr.result = Some([err |-> C30_Error(Unwrap(wr.status))])
              /\ i2c_writes # C30_Expected

====
